---- MODULE Spec2Model ----
(***************************************************************************)
(* PackStream codec of bolt-rs: the Map encoder and decoder                *)
(* (bolt-proto/src/value/map.rs), the generic Value decoder                *)
(* (bolt-proto/src/bolt/value.rs) and the structure header reader          *)
(* (bolt-proto/src/bolt/structure.rs).                                     *)
(*                                                                         *)
(* Bytes are numbers 0..255, byte strings are sequences of bytes.  The     *)
(* codecs of the variants whose source is not part of the files above      *)
(* (Null, Boolean, Integer, Float, String, List and the four graph         *)
(* structures) follow the marker table of the specification.               *)
(***************************************************************************)
EXTENDS Integers, Sequences, FiniteSets, TLC

VARIABLES pc, input, header, wire, cursor, result, via, rewire, history,
          conn, holder, threads

\* the codec called by one thread, Stream::connect, and the decoders called
\* by several threads on one cursor
codec_vars == <<pc, header, result, via, rewire, history>>
connect_vars == <<conn>>
thread_vars == <<holder, threads>>
vars == <<input, wire, cursor, codec_vars, connect_vars, thread_vars>>

\* ------------------------------------------------------------------------
\* Bounds of the model
\* ------------------------------------------------------------------------

\* largest number of entries of the enumerated maps (the 16 entry map of the
\* tests is added separately)
MaxEntries == 2

\* maps of at most this many entries are iterated in every order; larger
\* ones in ascending and descending key order only
MaxPermLen == 3

\* number of nested decoder invocations the thread's stack can hold
StackFrames == 8

\* deepest nesting of the generated nested inputs
MaxNest == 5

\* the nesting depth beyond which a decoder is to give up (the specification
\* recommends 256; scaled down with the stack to keep the inputs small)
DepthLimit == 2

\* number of decoder calls made on one cursor
MaxDecodes == 3

\* ------------------------------------------------------------------------
\* Marker and signature bytes
\* ------------------------------------------------------------------------

map_MARKER_TINY == 160
map_MARKER_SMALL == 216
map_MARKER_MEDIUM == 217
map_MARKER_LARGE == 218

structure_MARKER_TINY == 176
structure_MARKER_SMALL == 220
structure_MARKER_MEDIUM == 221

null_MARKER == 192
boolean_MARKER_FALSE == 194
boolean_MARKER_TRUE == 195
integer_MARKER_INT_8 == 200
integer_MARKER_INT_16 == 201
integer_MARKER_INT_32 == 202
integer_MARKER_INT_64 == 203
float_MARKER == 193
string_MARKER_TINY == 128
string_MARKER_SMALL == 208
string_MARKER_MEDIUM == 209
string_MARKER_LARGE == 210
list_MARKER_TINY == 144
list_MARKER_SMALL == 212
list_MARKER_MEDIUM == 213
list_MARKER_LARGE == 214

node_SIGNATURE == 78
relationship_SIGNATURE == 82
path_SIGNATURE == 80
unbound_relationship_SIGNATURE == 114

\* ------------------------------------------------------------------------
\* Bytes and machine integers
\* ------------------------------------------------------------------------

Byte == 0 .. 255

\* `let x = e; F(x)`: e is evaluated once
Bind(e, F(_)) == CHOOSE r \in {F(x) : x \in {e}} : TRUE

RECURSIVE BitOr(_, _)
\* a | b on unsigned integers
BitOr(a, b) ==
    IF a = 0 THEN b
    ELSE IF b = 0 THEN a
    ELSE (IF a % 2 = 1 \/ b % 2 = 1 THEN 1 ELSE 0) + 2 * BitOr(a \div 2, b \div 2)

RECURSIVE BitAnd(_, _)
\* a & b on unsigned integers
BitAnd(a, b) ==
    IF a = 0 \/ b = 0 THEN 0
    ELSE (IF a % 2 = 1 /\ b % 2 = 1 THEN 1 ELSE 0) + 2 * BitAnd(a \div 2, b \div 2)

\* `marker as i8` keeping the byte unsigned
AsI8_unsigned(b) == b

\* `b as i8`: the byte read as a signed 8 bit integer
AsI8(b) == IF b >= 128 THEN b - 256 ELSE b

\* A usize is kept as two limbs, hi * 65536 + lo with 0 <= lo < 65536, so
\* that lengths beyond 2^32-1 can be written down.
Usize(hi, lo) == [hi |-> hi, lo |-> lo]

\* n as usize, for a small natural n
ToUsize(n) == Usize(n \div 65536, n % 65536)

\* `n as u8`, `n as u16`, `n as u32` written big-endian (BufMut::put_u8,
\* put_u16, put_u32)
PutU8(n) == <<n.lo % 256>>
PutU16(n) == <<n.lo \div 256, n.lo % 256>>
PutU32(n) == <<(n.hi % 65536) \div 256, n.hi % 256, n.lo \div 256, n.lo % 256>>

\* usize comparisons against the range bounds of the match arms
UsizeLe(n, hi, lo) == n.hi < hi \/ (n.hi = hi /\ n.lo <= lo)
UsizeGe(n, hi, lo) == n.hi > hi \/ (n.hi = hi /\ n.lo >= lo)
InRange(n, lo1, hi2, lo2) == UsizeGe(n, 0, lo1) /\ UsizeLe(n, hi2, lo2)

\* i < n for a small natural i and a usize n
LessThanUsize(i, n) == n.hi > 0 \/ i < n.lo

\* ------------------------------------------------------------------------
\* Values
\* ------------------------------------------------------------------------

\* A Value is a pair <<variant, payload>>.  An Integer's payload is its 64 bit
\* two's complement, big-endian; a Float's its 8 IEEE-754 bytes; a String's
\* its UTF-8 bytes; a List's a sequence of Values; a Map's a function from
\* keys (byte strings) to Values; a structure's the record of its fields.
Variant(v) == v[1]
Payload(v) == v[2]

Null == <<"Null", <<>>>>
Boolean(b) == <<"Boolean", b>>
Integer(b8) == <<"Integer", b8>>
Float(b8) == <<"Float", b8>>
String(s) == <<"String", s>>
List(l) == <<"List", l>>
ValueMap(m) == <<"Map", m>>
Node(id, labels, props) ==
    <<"Node", [id |-> id, labels |-> labels, properties |-> props]>>
Relationship(id, s, e, ty, props) ==
    <<"Relationship",
      [id |-> id, start_id |-> s, end_id |-> e, type |-> ty, properties |-> props]>>
UnboundRelationship(id, ty, props) ==
    <<"UnboundRelationship", [id |-> id, type |-> ty, properties |-> props]>>
Path(nodes, rels, sequence) ==
    <<"Path", [nodes |-> nodes, rels |-> rels, sequence |-> sequence]>>

\* i64 from an integer of the 32 bit range: sign extension to 8 bytes
I64(n) ==
    LET s == IF n < 0 THEN 255 ELSE 0
        top == IF n < 0 THEN 128 ELSE 0
        m == IF n < 0 THEN (n + 2147483647) + 1 ELSE n
    IN  <<s, s, s, s, top + (m \div 16777216), (m \div 65536) % 256,
          (m \div 256) % 256, m % 256>>

\* the empty HashMap
EmptyMap == [k \in {} |-> Null]
\* an insert that keeps the value a key already has
Insert_keep_first(m, key, value) == m @@ (key :> value)

\* HashMap::insert: the value replaces the one the key had
Insert(m, key, value) == (key :> value) @@ m

\* ------------------------------------------------------------------------
\* Encoders
\* ------------------------------------------------------------------------

\* An encoder's outcome: Ok(bytes) or Err(ValueTooLarge(len))
EncOk(bytes) == [ok |-> TRUE, bytes |-> bytes, err |-> "None", len |-> ToUsize(0)]
EncErr(e, len) == [ok |-> FALSE, bytes |-> <<>>, err |-> e, len |-> len]

\* --- Integer: smallest width whose signed range contains the value ---
FitsBytes(v, k) ==
    LET s == IF v[1] >= 128 THEN 255 ELSE 0
    IN  /\ \A i \in 1 .. (8 - k) : v[i] = s
        /\ (v[9 - k] >= 128) <=> (s = 255)

Integer_try_into(v) ==
    IF FitsBytes(v, 1) /\ AsI8(v[8]) >= -16 THEN <<v[8]>>
    ELSE IF FitsBytes(v, 1) THEN <<integer_MARKER_INT_8, v[8]>>
    ELSE IF FitsBytes(v, 2) THEN <<integer_MARKER_INT_16, v[7], v[8]>>
    ELSE IF FitsBytes(v, 4) THEN <<integer_MARKER_INT_32>> \o SubSeq(v, 5, 8)
    ELSE <<integer_MARKER_INT_64>> \o v

\* --- marker and size prefix of a String or a List of n elements ---
SizedHeader(tiny, small, n) ==
    IF n <= 15 THEN <<tiny + n>>
    ELSE IF n <= 255 THEN <<small, n>>
    ELSE IF n <= 65535 THEN <<small + 1, n \div 256, n % 256>>
    ELSE <<small + 2>> \o PutU32(ToUsize(n))

String_try_into(s) == SizedHeader(string_MARKER_TINY, string_MARKER_SMALL, Len(s)) \o s

\* --- Map ---

\* get_marker with the tiny range one too wide (0..=16)
Map_get_marker_wide_tiny(len) ==
    IF InRange(len, 0, 0, 16) THEN EncOk(<<BitOr(map_MARKER_TINY, len.lo % 256)>>)
    ELSE IF InRange(len, 17, 0, 255) THEN EncOk(<<map_MARKER_SMALL>>)
    ELSE IF InRange(len, 256, 0, 65535) THEN EncOk(<<map_MARKER_MEDIUM>>)
    ELSE IF InRange(len, 65536, 65535, 65535) THEN EncOk(<<map_MARKER_LARGE>>)
    ELSE EncErr("ValueTooLarge", len)

\* impl Marker for Map: get_marker, on the number of entries
Map_get_marker(len) ==
    IF InRange(len, 0, 0, 15) THEN EncOk(<<BitOr(map_MARKER_TINY, len.lo % 256)>>)
    ELSE IF InRange(len, 16, 0, 255) THEN EncOk(<<map_MARKER_SMALL>>)
    ELSE IF InRange(len, 256, 0, 65535) THEN EncOk(<<map_MARKER_MEDIUM>>)
    ELSE IF InRange(len, 65536, 65535, 65535) THEN EncOk(<<map_MARKER_LARGE>>)
    ELSE EncErr("ValueTooLarge", len)

\* the `match length` of Map::try_into: the size prefix put after the marker
Map_put_length(length) ==
    IF InRange(length, 0, 0, 15) THEN EncOk(<<>>)
    ELSE IF InRange(length, 16, 0, 255) THEN EncOk(PutU8(length))
    ELSE IF InRange(length, 256, 0, 65535) THEN EncOk(PutU16(length))
    ELSE IF InRange(length, 65536, 65535, 65535) THEN EncOk(PutU32(length))
    ELSE EncErr("ValueTooLarge", length)

\* Map::try_into for a map of `length` entries whose keys and values were
\* serialized to `body` (value_bytes_vec, concatenated)
Map_try_into_bytes(length, body) ==
    LET marker == Map_get_marker(length)
        size == Map_put_length(length)
    IN  IF ~marker.ok THEN marker
        ELSE IF ~size.ok THEN size
        ELSE EncOk(marker.bytes \o size.bytes \o body)

\* lexicographic order of keys, used to write iteration orders down
RECURSIVE KeyLess(_, _)
KeyLess(a, b) ==
    IF a = <<>> THEN b # <<>>
    ELSE IF b = <<>> THEN FALSE
    ELSE IF a[1] # b[1] THEN a[1] < b[1]
    ELSE KeyLess(Tail(a), Tail(b))

\* the keys S in ascending order
SortedAsc(S) ==
    [i \in 1 .. Cardinality(S) |->
        CHOOSE x \in S : Cardinality({y \in S : KeyLess(y, x)}) = i - 1]

Reverse(s) == [i \in 1 .. Len(s) |-> s[Len(s) + 1 - i]]

\* The orders in which `for (key, val) in self.value` can visit the keys S of
\* a HashMap: any order.
IterationOrders(S) ==
    IF Cardinality(S) <= MaxPermLen
    THEN {f \in [1 .. Cardinality(S) -> S] : \A i, j \in DOMAIN f : f[i] = f[j] => i = j}
    ELSE {SortedAsc(S), Reverse(SortedAsc(S))}

ConcatSets(A, B) == {a \o b : a \in A, b \in B}

RECURSIVE Value_try_into(_)
RECURSIVE List_elements(_)
RECURSIVE Map_entries(_, _)

\* the loop of Map::try_into pushing key_bytes in the place of val_bytes
Map_entries_key_twice(m, order) ==
    IF order = <<>> THEN {<<>>}
    ELSE {key_bytes \o key_bytes \o rest :
             key_bytes \in {String_try_into(Head(order))},
             rest \in Map_entries(m, Tail(order))}

\* the byte strings `value_bytes_vec` can hold when the entries of m are
\* visited in the given order
Map_entries(m, order) ==
    IF order = <<>> THEN {<<>>}
    ELSE {key_bytes \o val_bytes \o rest :
             key_bytes \in {String_try_into(Head(order))},
             val_bytes \in UNION {Value_try_into(val) : val \in {m[Head(order)]}},
             rest \in Map_entries(m, Tail(order))}

\* impl TryInto<Bytes> for Map: the set of outcomes, one per iteration order
Map_try_into(m) ==
    LET length == ToUsize(Cardinality(DOMAIN m))
    IN  UNION {{Map_try_into_bytes(length, body) : body \in Map_entries(m, order)} :
               order \in IterationOrders(DOMAIN m)}

MapBytes(m) == {r.bytes : r \in {x \in Map_try_into(m) : x.ok}}

List_elements(l) ==
    IF l = <<>> THEN {<<>>}
    ELSE {val_bytes \o rest :
             val_bytes \in UNION {Value_try_into(val) : val \in {Head(l)}},
             rest \in List_elements(Tail(l))}

List_try_into(l) ==
    ConcatSets({SizedHeader(list_MARKER_TINY, list_MARKER_SMALL, Len(l))}, List_elements(l))

\* a structure of `n` fields: tiny structure marker, signature, fields
Structure_try_into(n, signature, fields) ==
    ConcatSets({<<structure_MARKER_TINY + n, signature>>}, List_elements(fields))

\* impl TryInto<Bytes> for Value: the byte strings v can be serialized to
Value_try_into(v) ==
    LET t == Variant(v)
        x == Payload(v)
    IN  CASE t = "Null" -> {<<null_MARKER>>}
          [] t = "Boolean" -> {<<IF x THEN boolean_MARKER_TRUE ELSE boolean_MARKER_FALSE>>}
          [] t = "Integer" -> {Integer_try_into(x)}
          [] t = "Float" -> {<<float_MARKER>> \o x}
          [] t = "String" -> {String_try_into(x)}
          [] t = "List" -> List_try_into(x)
          [] t = "Map" -> MapBytes(x)
          [] t = "Node" ->
                Structure_try_into(3, node_SIGNATURE,
                    <<Integer(x.id), List(x.labels), ValueMap(x.properties)>>)
          [] t = "Relationship" ->
                Structure_try_into(5, relationship_SIGNATURE,
                    <<Integer(x.id), Integer(x.start_id), Integer(x.end_id),
                      String(x.type), ValueMap(x.properties)>>)
          [] t = "UnboundRelationship" ->
                Structure_try_into(3, unbound_relationship_SIGNATURE,
                    <<Integer(x.id), String(x.type), ValueMap(x.properties)>>)
          [] t = "Path" ->
                Structure_try_into(3, path_SIGNATURE,
                    <<List(x.nodes), List(x.rels), List(x.sequence)>>)

\* ------------------------------------------------------------------------
\* The shared cursor: Arc<Mutex<Bytes>>
\* ------------------------------------------------------------------------

\* buf: the bytes not yet consumed; poisoned: a thread panicked while it held
\* the lock, so every later lock().unwrap() panics
Cursor(buf) == [buf |-> buf, poisoned |-> FALSE]

\* a read whose panic leaves the mutex unpoisoned
Read_unpoisoned(cur, n) ==
    IF cur.poisoned \/ Len(cur.buf) < n
    THEN [ok |-> FALSE, v |-> <<>>, cur |-> cur]
    ELSE [ok |-> TRUE, v |-> SubSeq(cur.buf, 1, n),
          cur |-> [cur EXCEPT !.buf = SubSeq(cur.buf, n + 1, Len(cur.buf))]]

\* input_arc.lock().unwrap().get_u8() / get_u16() / get_u32() and the other
\* reads of n bytes: panics (holding the lock) when fewer than n bytes remain
Read(cur, n) ==
    IF cur.poisoned \/ Len(cur.buf) < n
    THEN [ok |-> FALSE, v |-> <<>>, cur |-> [cur EXCEPT !.poisoned = TRUE]]
    ELSE [ok |-> TRUE, v |-> SubSeq(cur.buf, 1, n),
          cur |-> [cur EXCEPT !.buf = SubSeq(cur.buf, n + 1, Len(cur.buf))]]

\* input_arc.lock().unwrap().clone().get_u8(): reads the first byte of a copy
Peek(cur) ==
    IF cur.poisoned \/ Len(cur.buf) < 1
    THEN [ok |-> FALSE, v |-> <<>>, cur |-> [cur EXCEPT !.poisoned = TRUE]]
    ELSE [ok |-> TRUE, v |-> SubSeq(cur.buf, 1, 1), cur |-> cur]

\* advance(cnt) leaving the cursor where it stands
Advance_none(cur, cnt) == cur

\* input_arc.lock().unwrap().advance(cnt), cnt bytes remaining
Advance(cur, cnt) == [cur EXCEPT !.buf = SubSeq(cur.buf, cnt + 1, Len(cur.buf))]

\* a size read from the wire, as a usize
SizeOfBytes(bs) ==
    CASE Len(bs) = 1 -> Usize(0, bs[1])
      [] Len(bs) = 2 -> Usize(0, bs[1] * 256 + bs[2])
      [] Len(bs) = 4 -> Usize(bs[1] * 256 + bs[2], bs[3] * 256 + bs[4])

\* reads `size` bytes, size a usize
ReadSized(cur, size) ==
    IF size.hi > 0
    THEN [ok |-> FALSE, v |-> <<>>, cur |-> [cur EXCEPT !.poisoned = TRUE]]
    ELSE Read(cur, size.lo)

\* ------------------------------------------------------------------------
\* Decoder outcomes
\* ------------------------------------------------------------------------

NoValue == <<"None", <<>>>>
NoError == [kind |-> "None", byte |-> 0, wraps |-> 0]

\* DeserializationError::InvalidMarkerByte(b) / "Invalid marker byte: {:x}"
InvalidMarkerByte(b) == [kind |-> "InvalidMarkerByte", byte |-> b, wraps |-> 0]
\* "Invalid signature byte: {:x}"
InvalidSignatureByte(b) == [kind |-> "InvalidSignatureByte", byte |-> b, wraps |-> 0]
\* DeserializationError::Panicked / "Panicked during deserialization"
Panicked == [kind |-> "Panicked", byte |-> 0, wraps |-> 0]
Utf8Error == [kind |-> "Utf8", byte |-> 0, wraps |-> 0]

\* res: "Ok" and "Err" are the two results a decoder returns; "Panic" is an
\* unwinding panic (inside a catch_unwind block); "Abort" is the end of the
\* process on a stack overflow, which no catch_unwind block stops.
Ok(val, cur) == [res |-> "Ok", val |-> val, err |-> NoError, cur |-> cur]
Err(e, cur) == [res |-> "Err", val |-> NoValue, err |-> e, cur |-> cur]
Panic(cur) == [res |-> "Panic", val |-> NoValue, err |-> NoError, cur |-> cur]
Abort(cur) == [res |-> "Abort", val |-> NoValue, err |-> NoError, cur |-> cur]

\* catch_unwind(..).map_err(|_| Panicked)
CatchUnwind(caught) ==
    Bind(caught, LAMBDA r : IF r.res = "Panic" THEN Err(Panicked, r.cur) ELSE r)

\* Ok(Value::Variant(X::try_from(input_arc)?))
AsVariant(t, decoded) ==
    Bind(decoded, LAMBDA r : IF r.res = "Ok" THEN Ok(<<t, r.val>>, r.cur) ELSE r)

\* ------------------------------------------------------------------------
\* Decoders of the scalar variants
\* ------------------------------------------------------------------------

\* sign extension of 1, 2, 4 or 8 big-endian bytes to an i64
SignExtend(bs) ==
    LET s == IF bs[1] >= 128 THEN 255 ELSE 0
    IN  [i \in 1 .. (8 - Len(bs)) |-> s] \o bs

Integer_try_from(cur) ==
    LET m == Read(cur, 1)
        marker == m.v[1]
        width == CASE marker = integer_MARKER_INT_8 -> 1
                   [] marker = integer_MARKER_INT_16 -> 2
                   [] marker = integer_MARKER_INT_32 -> 4
                   [] OTHER -> 8
        body == Read(m.cur, width)
    IN  IF ~m.ok THEN Err(Panicked, m.cur)
        ELSE IF AsI8(marker) >= -16 THEN Ok(SignExtend(m.v), m.cur)
        ELSE IF marker \notin {integer_MARKER_INT_8, integer_MARKER_INT_16,
                               integer_MARKER_INT_32, integer_MARKER_INT_64}
        THEN Err(InvalidMarkerByte(marker), m.cur)
        ELSE IF ~body.ok THEN Err(Panicked, body.cur)
        ELSE Ok(SignExtend(body.v), body.cur)

Float_try_from(cur) ==
    LET m == Read(cur, 1)
        body == Read(m.cur, 8)
    IN  IF ~m.ok THEN Err(Panicked, m.cur)
        ELSE IF m.v[1] # float_MARKER THEN Err(InvalidMarkerByte(m.v[1]), m.cur)
        ELSE IF ~body.ok THEN Err(Panicked, body.cur)
        ELSE Ok(body.v, body.cur)

RECURSIVE IsUtf8(_)
\* well-formed UTF-8 (Unicode table 3-7)
IsUtf8(s) ==
    LET b == s[1]
        n == IF b <= 127 THEN 1
             ELSE IF b >= 194 /\ b <= 223 THEN 2
             ELSE IF b >= 224 /\ b <= 239 THEN 3
             ELSE IF b >= 240 /\ b <= 244 THEN 4
             ELSE 0
        lo2 == IF b = 224 THEN 160 ELSE IF b = 240 THEN 144 ELSE 128
        hi2 == IF b = 237 THEN 159 ELSE IF b = 244 THEN 143 ELSE 191
    IN  IF s = <<>> THEN TRUE
        ELSE /\ n > 0
             /\ Len(s) >= n
             /\ n >= 2 => (s[2] >= lo2 /\ s[2] <= hi2)
             /\ \A i \in 3 .. n : s[i] >= 128 /\ s[i] <= 191
             /\ IsUtf8(SubSeq(s, n + 1, Len(s)))

\* the size that follows a marker of a sized family: the low nibble of a
\* tiny marker, or the u8/u16/u32 after the small/medium/large marker
\* (width 0: the marker belongs to no member of the family)
SizeWidth(marker, tiny, small) ==
    IF marker >= tiny /\ marker <= tiny + 15 THEN 0
    ELSE IF marker = small THEN 1
    ELSE IF marker = small + 1 THEN 2
    ELSE 4

InFamily(marker, tiny, small) ==
    (marker >= tiny /\ marker <= tiny + 15) \/ (marker >= small /\ marker <= small + 2)

String_try_from(cur) ==
    LET m == Read(cur, 1)
        marker == m.v[1]
        width == SizeWidth(marker, string_MARKER_TINY, string_MARKER_SMALL)
        sz == Read(m.cur, width)
        size == IF width = 0 THEN Usize(0, marker % 16) ELSE SizeOfBytes(sz.v)
        body == ReadSized(sz.cur, size)
    IN  IF ~m.ok THEN Err(Panicked, m.cur)
        ELSE IF ~InFamily(marker, string_MARKER_TINY, string_MARKER_SMALL)
        THEN Err(InvalidMarkerByte(marker), m.cur)
        ELSE IF ~sz.ok THEN Err(Panicked, sz.cur)
        ELSE IF ~body.ok THEN Err(Panicked, body.cur)
        ELSE IF ~IsUtf8(body.v) THEN Err(Utf8Error, body.cur)
        ELSE Ok(body.v, body.cur)

\* ------------------------------------------------------------------------
\* Decoders of the composite variants and the generic Value decoder
\* ------------------------------------------------------------------------

\* get_signature_from_bytes: called with the lock held, may panic
get_signature_from_bytes(cur) ==
    LET m == Read(cur, 1)
        marker == m.v[1]
        tiny == marker >= structure_MARKER_TINY
                /\ marker <= BitOr(structure_MARKER_TINY, 15)
        sz == IF tiny THEN Read(m.cur, 0)
              ELSE IF marker = structure_MARKER_SMALL THEN Read(m.cur, 1)
              ELSE Read(m.cur, 2)
        signature == Read(sz.cur, 1)
    IN  IF ~m.ok THEN Panic(m.cur)
        ELSE IF ~tiny /\ marker \notin {structure_MARKER_SMALL, structure_MARKER_MEDIUM}
        THEN Err(InvalidMarkerByte(marker), m.cur)
        ELSE IF ~sz.ok THEN Panic(sz.cur)
        ELSE IF ~signature.ok THEN Panic(signature.cur)
        ELSE Ok(signature.v[1], signature.cur)

RECURSIVE Value_try_from(_, _)
RECURSIVE Map_try_from(_, _)
RECURSIVE Map_entry_loop(_, _, _, _, _)
RECURSIVE List_try_from(_, _)
RECURSIVE List_element_loop(_, _, _, _, _)
RECURSIVE Fields_try_from(_, _, _, _)
RECURSIVE Structure_try_from(_, _, _)
RECURSIVE deserialize_structure(_, _)

\* the loop body of Map::try_from decoding the key with the Value decoder
Map_entry_any_key(cur, depth) ==
    Bind(Value_try_from(cur, depth + 1), LAMBDA key :
    IF key.res # "Ok" THEN key
    ELSE Bind(Value_try_from(key.cur, depth + 1), LAMBDA value :
         IF value.res # "Ok" THEN value
         ELSE Ok(<<key.val, value.val>>, value.cur)))

\* one pass of the loop body of Map::try_from: a String key, then a Value
Map_entry(cur, depth) ==
    LET key == String_try_from(cur)
    IN  IF key.res # "Ok" THEN key
        ELSE Bind(Value_try_from(key.cur, depth + 1), LAMBDA value :
             IF value.res # "Ok" THEN value
             ELSE Ok(<<key.val, value.val>>, value.cur))

\* the loop of Map::try_from running over 1..size
Map_entry_loop_from_one(cur, size, i, hash_map, depth) ==
    IF ~LessThanUsize(i + 1, size) THEN Ok(hash_map, cur)
    ELSE Bind(Map_entry(cur, depth), LAMBDA entry :
         IF entry.res # "Ok" THEN entry
         ELSE Map_entry_loop(entry.cur, size, i + 1,
                             Insert(hash_map, entry.val[1], entry.val[2]), depth))

\* `for _ in 0..size` of Map::try_from, from iteration i on
Map_entry_loop(cur, size, i, hash_map, depth) ==
    IF ~LessThanUsize(i, size) THEN Ok(hash_map, cur)
    ELSE Bind(Map_entry(cur, depth), LAMBDA entry :
         IF entry.res # "Ok" THEN entry
         ELSE Map_entry_loop(entry.cur, size, i + 1,
                             Insert(hash_map, entry.val[1], entry.val[2]), depth))

\* Map::try_from reading the size of the small form as a u16
Map_read_size_small_u16(cur) ==
    LET m == Read(cur, 1)
        marker == m.v[1]
        tiny == marker >= map_MARKER_TINY /\ marker <= BitOr(map_MARKER_TINY, 15)
        sz == IF tiny THEN Read(m.cur, 0)
              ELSE IF marker = map_MARKER_SMALL THEN Read(m.cur, 2)
              ELSE IF marker = map_MARKER_MEDIUM THEN Read(m.cur, 2)
              ELSE Read(m.cur, 4)
    IN  IF ~m.ok THEN Panic(m.cur)
        ELSE IF ~tiny /\ marker \notin {map_MARKER_SMALL, map_MARKER_MEDIUM, map_MARKER_LARGE}
        THEN Err(InvalidMarkerByte(marker), m.cur)
        ELSE IF ~sz.ok THEN Panic(sz.cur)
        ELSE Ok(IF tiny THEN Usize(0, BitAnd(15, marker)) ELSE SizeOfBytes(sz.v), sz.cur)

\* the marker and the size of Map::try_from: the size is the low nibble of a
\* tiny marker, or the u8/u16/u32 after the small/medium/large marker
Map_read_size(cur) ==
    LET m == Read(cur, 1)
        marker == m.v[1]
        tiny == marker >= map_MARKER_TINY /\ marker <= BitOr(map_MARKER_TINY, 15)
        sz == IF tiny THEN Read(m.cur, 0)
              ELSE IF marker = map_MARKER_SMALL THEN Read(m.cur, 1)
              ELSE IF marker = map_MARKER_MEDIUM THEN Read(m.cur, 2)
              ELSE Read(m.cur, 4)
    IN  IF ~m.ok THEN Panic(m.cur)
        ELSE IF ~tiny /\ marker \notin {map_MARKER_SMALL, map_MARKER_MEDIUM, map_MARKER_LARGE}
        THEN Err(InvalidMarkerByte(marker), m.cur)
        ELSE IF ~sz.ok THEN Panic(sz.cur)
        ELSE Ok(IF tiny THEN Usize(0, BitAnd(15, marker)) ELSE SizeOfBytes(sz.v), sz.cur)

\* impl TryFrom<Arc<Mutex<Bytes>>> for Map; depth is the number of decoder
\* invocations on the stack, this one included
Map_try_from(cur, depth) ==
    LET size == Map_read_size(cur)
    IN  IF depth > StackFrames THEN Abort(cur)
        ELSE IF size.res # "Ok" THEN CatchUnwind(size)
        ELSE CatchUnwind(Map_entry_loop(size.cur, size.val, 0, EmptyMap, depth))

List_element_loop(cur, size, i, list, depth) ==
    IF ~LessThanUsize(i, size) THEN Ok(list, cur)
    ELSE Bind(Value_try_from(cur, depth + 1), LAMBDA value :
         IF value.res # "Ok" THEN value
         ELSE List_element_loop(value.cur, size, i + 1, Append(list, value.val), depth))

List_read_size(cur) ==
    LET m == Read(cur, 1)
        marker == m.v[1]
        width == SizeWidth(marker, list_MARKER_TINY, list_MARKER_SMALL)
        sz == Read(m.cur, width)
    IN  IF ~m.ok THEN Err(Panicked, m.cur)
        ELSE IF ~InFamily(marker, list_MARKER_TINY, list_MARKER_SMALL)
        THEN Err(InvalidMarkerByte(marker), m.cur)
        ELSE IF ~sz.ok THEN Err(Panicked, sz.cur)
        ELSE Ok(IF width = 0 THEN Usize(0, marker % 16) ELSE SizeOfBytes(sz.v), sz.cur)

List_try_from(cur, depth) ==
    LET size == List_read_size(cur)
    IN  IF depth > StackFrames THEN Abort(cur)
        ELSE IF size.res # "Ok" THEN size
        ELSE List_element_loop(size.cur, size.val, 0, <<>>, depth)

\* the decoder of a field of type k
Field_try_from(k, cur, depth) ==
    CASE k = "Integer" -> Integer_try_from(cur)
      [] k = "String" -> String_try_from(cur)
      [] k = "List" -> List_try_from(cur, depth + 1)
      [] k = "Map" -> Map_try_from(cur, depth + 1)

\* decodes the fields of a structure one after the other, each with the
\* decoder of its type; kinds is the sequence of the field types
Fields_try_from(cur, kinds, fields, depth) ==
    IF kinds = <<>> THEN Ok(fields, cur)
    ELSE Bind(Field_try_from(Head(kinds), cur, depth), LAMBDA f :
         IF f.res # "Ok" THEN f
         ELSE Fields_try_from(f.cur, Tail(kinds), Append(fields, f.val), depth))

\* the field types of the structure of a signature
FieldKinds(signature) ==
    CASE signature = node_SIGNATURE -> <<"Integer", "List", "Map">>
      [] signature = relationship_SIGNATURE ->
            <<"Integer", "Integer", "Integer", "String", "Map">>
      [] signature = path_SIGNATURE -> <<"List", "List", "List">>
      [] signature = unbound_relationship_SIGNATURE -> <<"Integer", "String", "Map">>

\* the structure of a signature, from its decoded fields
FromFields(signature, f) ==
    CASE signature = node_SIGNATURE -> Node(f[1], f[2], f[3])
      [] signature = relationship_SIGNATURE -> Relationship(f[1], f[2], f[3], f[4], f[5])
      [] signature = path_SIGNATURE -> Path(f[1], f[2], f[3])
      [] signature = unbound_relationship_SIGNATURE -> UnboundRelationship(f[1], f[2], f[3])

\* Node::try_from, Relationship::try_from, Path::try_from and
\* UnboundRelationship::try_from: the cursor stands after the signature
Structure_try_from(signature, cur, depth) ==
    IF depth > StackFrames THEN Abort(cur)
    ELSE Bind(Fields_try_from(cur, FieldKinds(signature), <<>>, depth), LAMBDA r :
         IF r.res # "Ok" THEN r
         ELSE Ok(FromFields(signature, r.val), r.cur))

\* deserialize_structure: called inside the catch_unwind block of
\* Value::try_from, may panic
deserialize_structure(cur, depth) ==
    LET signature == get_signature_from_bytes(cur)
    IN  IF signature.res # "Ok" THEN signature
        ELSE IF signature.val \in {node_SIGNATURE, relationship_SIGNATURE, path_SIGNATURE,
                                   unbound_relationship_SIGNATURE}
        THEN Structure_try_from(signature.val, signature.cur, depth + 1)
        ELSE Err(InvalidSignatureByte(signature.val), signature.cur)

\* the match on the marker of Value::try_from, the marker peeked (the arms
\* are disjoint, so their order does not matter)
Value_dispatch(marker, cur, depth) ==
    LET advance == Advance(cur, 1)
    IN  CASE marker = null_MARKER -> Ok(Null, advance)
          [] marker = boolean_MARKER_FALSE -> Ok(Boolean(FALSE), advance)
          [] marker = boolean_MARKER_TRUE -> Ok(Boolean(TRUE), advance)
          [] AsI8(marker) >= -16 /\ AsI8(marker) <= 127 ->
                Ok(Integer(SignExtend(<<marker>>)), advance)
          [] marker \in {integer_MARKER_INT_8, integer_MARKER_INT_16,
                         integer_MARKER_INT_32, integer_MARKER_INT_64} ->
                AsVariant("Integer", Integer_try_from(cur))
          [] marker = float_MARKER -> AsVariant("Float", Float_try_from(cur))
          [] marker >= string_MARKER_TINY /\ marker <= BitOr(string_MARKER_TINY, 15) ->
                AsVariant("String", String_try_from(cur))
          [] marker \in {string_MARKER_SMALL, string_MARKER_MEDIUM, string_MARKER_LARGE} ->
                AsVariant("String", String_try_from(cur))
          [] marker >= list_MARKER_TINY /\ marker <= BitOr(list_MARKER_TINY, 15) ->
                AsVariant("List", List_try_from(cur, depth + 1))
          [] marker \in {list_MARKER_SMALL, list_MARKER_MEDIUM, list_MARKER_LARGE} ->
                AsVariant("List", List_try_from(cur, depth + 1))
          [] marker >= map_MARKER_TINY /\ marker <= BitOr(map_MARKER_TINY, 15) ->
                AsVariant("Map", Map_try_from(cur, depth + 1))
          [] marker \in {map_MARKER_SMALL, map_MARKER_MEDIUM, map_MARKER_LARGE} ->
                AsVariant("Map", Map_try_from(cur, depth + 1))
          [] marker >= structure_MARKER_TINY /\ marker <= BitOr(list_MARKER_TINY, 15) ->
                deserialize_structure(cur, depth)
          [] marker \in {structure_MARKER_SMALL, structure_MARKER_MEDIUM} ->
                deserialize_structure(cur, depth)
          [] OTHER -> Err(InvalidMarkerByte(marker), cur)

\* result.map_err(|err| DeserializeError("Error creating Value from Bytes: {err}"))
MapErr(r) == IF r.res = "Err" THEN [r EXCEPT !.err.wraps = @ + 1] ELSE r

\* impl TryFrom<Arc<Mutex<Bytes>>> for Value
Value_try_from(cur, depth) ==
    LET m == Peek(cur)
    IN  IF depth > StackFrames THEN Abort(cur)
        ELSE IF ~m.ok THEN CatchUnwind(Panic(m.cur))
        ELSE Bind(Value_dispatch(m.v[1], cur, depth), LAMBDA r :
             IF r.res = "Panic" THEN CatchUnwind(r) ELSE MapErr(r))

\* ------------------------------------------------------------------------
\* Conversion of a Value to a zoned date-time
\* ------------------------------------------------------------------------

\* Value::DateTimeZoned(DateTimeZoned { epoch_seconds, nanos, zone_id })
DateTimeZoned(epoch_seconds, nanos, zone_id) ==
    <<"DateTimeZoned",
      [epoch_seconds |-> epoch_seconds, nanos |-> nanos, zone_id |-> zone_id]>>

\* the time zone names zone_id.parse() knows
Zones == {"UTC", "Europe/Paris", "America/New_York"}

\* timezone.timestamp_opt(secs, nanos): a single instant unless nanos is
\* beyond a leap second
timestamp_opt(timezone, secs, nanos) ==
    IF nanos < 2000000000
    THEN <<"Single", [timezone |-> timezone, secs |-> secs, nanos |-> nanos]>>
    ELSE <<"None", <<>>>>

\* the conversion failing with ConversionError::FromValue(Null) for every
\* other variant
DateTime_try_from_losing_value(value) ==
    IF Variant(value) = "DateTimeZoned"
    THEN LET date_time_zoned == Payload(value)
             instant == timestamp_opt(date_time_zoned.zone_id,
                            date_time_zoned.epoch_seconds, date_time_zoned.nanos)
         IN  IF date_time_zoned.zone_id \notin Zones \/ instant[1] # "Single"
             THEN [res |-> "Panic", val |-> NoValue, err |-> NoError]
             ELSE [res |-> "Ok", val |-> <<"DateTime", instant[2]>>, err |-> NoError]
    ELSE [res |-> "Err", val |-> Null,
          err |-> [kind |-> "ConversionError", byte |-> 0, wraps |-> 0]]

\* impl TryFrom<Value> for DateTime<Tz>; the two unwraps panic on a zone id
\* that does not parse and on an instant that does not exist; val of an Err
\* is the Value that ConversionError::FromValue carries
DateTime_try_from(value) ==
    IF Variant(value) = "DateTimeZoned"
    THEN LET date_time_zoned == Payload(value)
             instant == timestamp_opt(date_time_zoned.zone_id,
                            date_time_zoned.epoch_seconds, date_time_zoned.nanos)
         IN  IF date_time_zoned.zone_id \notin Zones \/ instant[1] # "Single"
             THEN [res |-> "Panic", val |-> NoValue, err |-> NoError]
             ELSE [res |-> "Ok", val |-> <<"DateTime", instant[2]>>, err |-> NoError]
    ELSE [res |-> "Err", val |-> value,
          err |-> [kind |-> "ConversionError", byte |-> 0, wraps |-> 0]]

\* ------------------------------------------------------------------------
\* Inputs
\* ------------------------------------------------------------------------

Keys == {<<97>>, <<98>>, <<99>>}

SmallMap == Insert(Insert(EmptyMap, <<97>>, Integer(I64(1))), <<98>>, Null)

SampleNode ==
    Node(I64(1), <<String(<<80>>)>>, Insert(EmptyMap, <<110>>, String(<<65>>)))

EntryValues ==
    {Null, Boolean(TRUE), Integer(I64(1)), Integer(I64(-50)),
     Float(<<64, 9, 33, 251, 84, 68, 45, 24>>), String(<<97>>),
     List(<<Integer(I64(8000)), Null>>), ValueMap(SmallMap), SampleNode}

\* one map per remaining variant, and the maps of 16 and 17 entries
ExtraMaps ==
    {Insert(EmptyMap, <<97>>, Relationship(I64(1), I64(2), I64(3), <<82>>, SmallMap)),
     Insert(EmptyMap, <<97>>, UnboundRelationship(I64(1), <<82>>, EmptyMap)),
     Insert(EmptyMap, <<97>>, Path(<<SampleNode>>, <<>>, <<Integer(I64(1))>>)),
     Insert(EmptyMap, <<97>>, Integer(I64(-1000000000))),
     Insert(EmptyMap, <<97>>, Boolean(FALSE)),
     [k \in {<<96 + i>> : i \in 1 .. 16} |-> Integer(I64(k[1] % 10))],
     [k \in {<<96 + i>> : i \in 1 .. 17} |-> Integer(I64(k[1] % 10))]}

MapInputs ==
    UNION {[K -> EntryValues] : K \in {S \in SUBSET Keys : Cardinality(S) <= MaxEntries}}
    \cup ExtraMaps

\* lengths around the bounds of the four header widths
LengthInputs ==
    {Usize(hi, lo) : hi \in {0, 1, 255, 65535, 65536, 70000},
                     lo \in {0, 1, 14, 15, 16, 17, 255, 256, 257, 65535}}

\* bs, n times
Repeat(bs, n) == [i \in 1 .. n * Len(bs) |-> bs[((i - 1) % Len(bs)) + 1]]

RECURSIVE TinyEntries(_)
\* n map entries with distinct one letter keys and tiny integer values
TinyEntries(n) == IF n = 0 THEN <<>> ELSE TinyEntries(n - 1) \o <<129, 96 + n, n>>

\* the encoded fields of a structure of the given signature; of an unknown
\* signature, n Nulls
FieldBytes(signature, n) ==
    CASE signature = node_SIGNATURE -> <<1, 145, 129, 80, 160>>
      [] signature = relationship_SIGNATURE -> <<1, 2, 3, 129, 82, 160>>
      [] signature = path_SIGNATURE -> <<144, 144, 144>>
      [] signature = unbound_relationship_SIGNATURE -> <<1, 129, 82, 160>>
      [] OTHER -> Repeat(<<null_MARKER>>, n)

\* what follows the marker b in a well-formed encoding that starts with b
Remainder(b) ==
    CASE b = integer_MARKER_INT_8 -> <<206>>
      [] b = integer_MARKER_INT_16 -> <<31, 64>>
      [] b = integer_MARKER_INT_32 -> <<196, 101, 54, 0>>
      [] b = integer_MARKER_INT_64 -> <<124, 230, 108, 80, 226, 132, 0, 0>>
      [] b = float_MARKER -> <<64, 9, 33, 251, 84, 68, 45, 24>>
      [] b >= string_MARKER_TINY /\ b <= string_MARKER_TINY + 15 -> Repeat(<<97>>, b % 16)
      [] b = string_MARKER_SMALL -> <<1, 97>>
      [] b = string_MARKER_MEDIUM -> <<0, 1, 97>>
      [] b = string_MARKER_LARGE -> <<0, 0, 0, 1, 97>>
      [] b >= list_MARKER_TINY /\ b <= list_MARKER_TINY + 15 -> Repeat(<<1>>, b % 16)
      [] b = list_MARKER_SMALL -> <<1, 1>>
      [] b = list_MARKER_MEDIUM -> <<0, 1, 1>>
      [] b = list_MARKER_LARGE -> <<0, 0, 0, 1, 1>>
      [] b >= map_MARKER_TINY /\ b <= map_MARKER_TINY + 15 -> TinyEntries(b % 16)
      [] b = map_MARKER_SMALL -> <<1>> \o TinyEntries(1)
      [] b = map_MARKER_MEDIUM -> <<0, 1>> \o TinyEntries(1)
      [] b = map_MARKER_LARGE -> <<0, 0, 0, 1>> \o TinyEntries(1)
      [] b = structure_MARKER_TINY + 5 ->
            <<relationship_SIGNATURE>> \o FieldBytes(relationship_SIGNATURE, 5)
      [] b = structure_MARKER_TINY + 3 -> <<node_SIGNATURE>> \o FieldBytes(node_SIGNATURE, 3)
      [] b >= structure_MARKER_TINY /\ b <= structure_MARKER_TINY + 15
         /\ b \notin {structure_MARKER_TINY + 3, structure_MARKER_TINY + 5} ->
            <<153>> \o FieldBytes(153, b % 16)
      [] b = structure_MARKER_SMALL -> <<3, node_SIGNATURE>> \o FieldBytes(node_SIGNATURE, 3)
      [] b = structure_MARKER_MEDIUM ->
            <<0, 3, node_SIGNATURE>> \o FieldBytes(node_SIGNATURE, 3)
      [] OTHER -> <<>>

\* every first byte, followed by a well-formed remainder
MarkerInputs ==
    {[src |-> "Bytes", family |-> "marker", n |-> b, signature |-> 0,
      bytes |-> <<b>> \o Remainder(b)] : b \in Byte}

\* the header of a structure that declares n fields, in the tiny, small
\* (u8 size) or medium (u16 size) form
StructureHeader(form, n) ==
    CASE form = "tiny" -> <<structure_MARKER_TINY + n>>
      [] form = "small" -> <<structure_MARKER_SMALL, n>>
      [] form = "medium" -> <<structure_MARKER_MEDIUM, 0, n>>

Signatures ==
    {node_SIGNATURE, relationship_SIGNATURE, path_SIGNATURE,
     unbound_relationship_SIGNATURE, 153, 0}

\* structures of every form, declared field count and signature, followed by
\* the fields of the signature
StructureInputs ==
    {[src |-> "Bytes", family |-> form, n |-> n, signature |-> sig,
      bytes |-> StructureHeader(form, n) \o <<sig>> \o FieldBytes(sig, n)] :
        form \in {"tiny", "small", "medium"}, n \in {0, 1, 2, 3, 4, 5, 15},
        sig \in Signatures}

\* encodings whose prefixes are the truncated inputs
Samples ==
    {<<162, 129, 97, 1, 129, 98, 161, 129, 99, 192>>,
     <<216, 2, 129, 97, 201, 31, 64, 129, 98, 208, 1, 97>>,
     <<218, 0, 0, 0, 1, 129, 97, 146, 1, 193, 64, 9, 33, 251, 84, 68, 45, 24>>,
     <<220, 3, 78, 1, 145, 129, 80, 161, 129, 110, 129, 65>>,
     <<161, 209, 0, 1, 97, 202, 196, 101, 54, 0>>}

PrefixInputs ==
    UNION {{[src |-> "Bytes", family |-> "prefix", n |-> k, signature |-> 0,
      bytes |-> SubSeq(s, 1, k)] : k \in 0 .. Len(s)} : s \in Samples}

\* a map nested n deep: n times {"a": ..} around the empty map
NestedMap(n) == Repeat(<<161, 129, 97>>, n) \o <<160>>

NestDepths == 0 .. MaxNest

NestedInputs ==
    {[src |-> "Bytes", family |-> "nested", n |-> d, signature |-> 0,
      bytes |-> NestedMap(d)] : d \in NestDepths}

\* the map of n entries "a" -> 1, "b" -> 2, ..
TinyMap(n) == [k \in {<<96 + i>> : i \in 1 .. n} |-> Integer(I64(k[1] - 96))]

\* the header of a map of n entries in the tiny form or with a u8, u16 or u32
\* size
MapHeader(form, n) ==
    CASE form = "map_tiny" -> <<map_MARKER_TINY + n>>
      [] form = "map_small" -> <<map_MARKER_SMALL, n>>
      [] form = "map_medium" -> <<map_MARKER_MEDIUM, 0, n>>
      [] form = "map_large" -> <<map_MARKER_LARGE, 0, 0, 0, n>>

MapForms == {"map_tiny", "map_small", "map_medium", "map_large"}

WidthSizes == {0, 1, 2, 15, 16, 17}

\* maps of n entries under a header of every width that holds n
WidthInputs ==
    {[src |-> "Bytes", family |-> form, n |-> n, signature |-> 0,
      bytes |-> MapHeader(form, n) \o TinyEntries(n)] :
        form \in MapForms, n \in WidthSizes} \ 
    {[src |-> "Bytes", family |-> "map_tiny", n |-> n, signature |-> 0,
      bytes |-> MapHeader("map_tiny", n) \o TinyEntries(n)] : n \in {16, 17}}

\* a map of one entry whose key position starts with the byte b, followed by
\* a well-formed remainder and the value 1
KeyInputs ==
    {[src |-> "Bytes", family |-> "key", n |-> b, signature |-> 0,
      bytes |-> <<map_MARKER_TINY + 1, b>> \o Remainder(b) \o <<1>>] : b \in Byte}

\* the bytes that follow a value on the cursor
TrailingBytes == <<195, 42>>

\* every first byte, followed by a well-formed remainder and by more bytes
TailInputs ==
    {[src |-> "Bytes", family |-> "tail", n |-> b, signature |-> 0,
      bytes |-> <<b>> \o Remainder(b) \o TrailingBytes] : b \in Byte}

\* inputs that end inside a size or a signature, the bytes left over being
\* the encoding of a value
UnderReadInputs ==
    {[src |-> "Bytes", family |-> "underread", n |-> Len(bs), signature |-> 0,
      bytes |-> bs] :
        bs \in {<<map_MARKER_MEDIUM, 1>>, <<map_MARKER_LARGE, 0, 0, 1>>,
                <<map_MARKER_LARGE, 160>>, <<structure_MARKER_MEDIUM, 1>>}}

BytesInputs ==
    MarkerInputs \cup StructureInputs \cup PrefixInputs \cup NestedInputs \cup WidthInputs
    \cup KeyInputs \cup TailInputs \cup UnderReadInputs

\* zoned date-times built by DateTimeZoned::new, which validates its fields
DateTimeZonedInputs ==
    {DateTimeZoned(secs, nanos, zone) :
        secs \in {-1, 0, 1566450000}, nanos \in {0, 999999999}, zone \in Zones}

\* the Values handed to the conversion: every variant
ConvertInputs ==
    EntryValues \cup DateTimeZonedInputs
    \cup {Boolean(FALSE), List(<<>>), ValueMap(EmptyMap),
          Relationship(I64(1), I64(2), I64(3), <<82>>, SmallMap),
          UnboundRelationship(I64(1), <<82>>, EmptyMap),
          Path(<<SampleNode>>, <<>>, <<Integer(I64(1))>>)}

\* the values written back-to-back on one cursor
SequenceValues ==
    {Null, Integer(I64(-50)), String(<<97>>), ValueMap(SmallMap), SampleNode}

SequenceInputs ==
    UNION {[1 .. n -> SequenceValues] : n \in 2 .. MaxDecodes}

RECURSIVE EncodeAll(_)
\* the byte strings the values vs can be serialized to, one after the other
EncodeAll(vs) ==
    IF vs = <<>> THEN {<<>>}
    ELSE {first \o rest : first \in UNION {Value_try_into(v) : v \in {Head(vs)}},
                          rest \in EncodeAll(Tail(vs))}

\* the keys of the entries of a wire map, in wire order: one letter each, that
\* may repeat; the value of the i-th entry is the tiny int i
PairInputs == UNION {[1 .. n -> {97, 98}] : n \in 2 .. 3}

RECURSIVE PairBytes(_, _)
\* the entries i .. Len(ks) on the wire
PairBytes(ks, i) ==
    IF i > Len(ks) THEN <<>>
    ELSE <<string_MARKER_TINY + 1, ks[i], i>> \o PairBytes(ks, i + 1)

\* ------------------------------------------------------------------------
\* The state machine
\* ------------------------------------------------------------------------

\* no connection is being made, no thread runs a decoder
ConnectIdle == conn = <<>>
ThreadsIdle == holder = 0 /\ threads = <<>>

NoHeader == [marker |-> EncOk(<<>>), bytes |-> EncOk(<<>>)]
NoResult == [res |-> "None", val |-> NoValue, err |-> NoError]

\* Either a Map is about to be serialized, or bytes arrived on a cursor, or
\* a map of some length is about to write its header, or values were written
\* back-to-back to a cursor, or a map arrived whose keys may repeat, or a
\* Value is about to be converted.
Init ==
    /\ \/ /\ \E m \in MapInputs : input = [src |-> "Map", map |-> m]
          /\ pc = "value"
          /\ wire = <<>>
       \/ /\ \E i \in BytesInputs : input = i
          /\ pc = "wire"
          /\ wire = input.bytes
       \/ /\ \E len \in LengthInputs : input = [src |-> "Length", len |-> len]
          /\ pc = "length"
          /\ wire = <<>>
       \/ /\ \E vs \in SequenceInputs :
                /\ input = [src |-> "Values", values |-> vs]
                /\ wire \in EncodeAll(vs)
          /\ pc = "wire"
       \/ /\ \E ks \in PairInputs, form \in {"map_tiny", "map_small"} :
                /\ input = [src |-> "Pairs", keys |-> ks]
                /\ wire = MapHeader(form, Len(ks)) \o PairBytes(ks, 1)
          /\ pc = "wire"
       \/ /\ \E v \in ConvertInputs : input = [src |-> "Value", value |-> v]
          /\ pc = "convert"
          /\ wire = <<>>
    /\ cursor = Cursor(wire)
    /\ header = NoHeader
    /\ result = NoResult
    /\ via = "None"
    /\ rewire = <<>>
    /\ history = <<>>
    /\ ConnectIdle
    /\ ThreadsIdle

\* get_marker and the header Map::try_into writes, for a map of input.len
\* entries (the entries left out)
GetMarker ==
    /\ pc = "length"
    /\ header' = [marker |-> Map_get_marker(input.len),
                  bytes |-> Map_try_into_bytes(input.len, <<>>)]
    /\ pc' = "header"
    /\ UNCHANGED <<input, wire, cursor, result, via, rewire, history>>
    /\ UNCHANGED <<connect_vars, thread_vars>>

\* Map::try_into_bytes, the bytes handed to a fresh cursor
Serialize ==
    /\ pc = "value"
    /\ \E r \in Map_try_into(input.map) :
          /\ r.ok
          /\ wire' = r.bytes
          /\ cursor' = Cursor(r.bytes)
    /\ pc' = "wire"
    /\ UNCHANGED <<input, header, result, via, rewire, history>>
    /\ UNCHANGED <<connect_vars, thread_vars>>

\* the call returns r (or ends the process): the caller holds the result,
\* the cursor stands where the decoder left it
Finish(r, decoder, returned) ==
    /\ result' = [res |-> r.res, val |-> r.val, err |-> r.err]
    /\ history' = Append(history, [res |-> r.res, val |-> r.val, err |-> r.err,
                                    via |-> decoder])
    /\ cursor' = r.cur
    /\ via' = decoder
    /\ pc' = IF r.res = "Abort" THEN "aborted" ELSE returned
    /\ UNCHANGED <<input, header, wire, rewire>>
    /\ UNCHANGED <<connect_vars, thread_vars>>

\* Map::try_from(cursor)
DecodeMap ==
    /\ pc = "wire"
    /\ Finish(Map_try_from(cursor, 1), "Map", "decoded")

\* Value::try_from(cursor)
DecodeValue ==
    /\ pc = "wire"
    /\ Finish(Value_try_from(cursor, 1), "Value", "decoded")

\* one more call of Map::try_from or Value::try_from on the cursor a decoder
\* returned from
DecodeAgain ==
    /\ pc \in {"decoded", "again"}
    /\ Len(history) < MaxDecodes
    /\ \/ Finish(Map_try_from(cursor, 1), "Map", "again")
       \/ Finish(Value_try_from(cursor, 1), "Value", "again")

\* the decoded value serialized again
Reserialize ==
    /\ pc = "decoded"
    /\ result.res = "Ok"
    /\ \E bytes \in (IF via = "Map" THEN MapBytes(result.val) ELSE Value_try_into(result.val)) :
          rewire' = bytes
    /\ pc' = "reencoded"
    /\ UNCHANGED <<input, header, wire, cursor, result, via, history>>
    /\ UNCHANGED <<connect_vars, thread_vars>>

\* DateTime::<Tz>::try_from(value)
Convert ==
    /\ pc = "convert"
    /\ result' = DateTime_try_from(input.value)
    /\ pc' = "converted"
    /\ UNCHANGED <<input, header, wire, cursor, via, rewire, history>>
    /\ UNCHANGED <<connect_vars, thread_vars>>

Next ==
    \/ GetMarker \/ Serialize \/ DecodeMap \/ DecodeValue \/ DecodeAgain \/ Reserialize
    \/ Convert

Spec == Init /\ [][Next]_vars

\* ------------------------------------------------------------------------
\* Stream::connect
\* ------------------------------------------------------------------------

\* the codec is not in use
CodecIdle ==
    /\ pc = "idle"
    /\ input = [src |-> "None"]
    /\ wire = <<>>
    /\ cursor = Cursor(<<>>)
    /\ header = NoHeader
    /\ result = NoResult
    /\ via = "None"
    /\ rewire = <<>>
    /\ history = <<>>

\* addr: impl ToSocketAddrs
Addrs == {"127.0.0.1:7687", "db.example:7687", "10.0.0.9:7687", "[::1]:7687"}

\* domain: Option<impl AsRef<str>>, the names as ASCII bytes: "db", "d.b",
\* "n4j", "d-b", "", "d b", ".d", "-d", "d..b"
NoDomain == <<"None", <<>>>>
SomeDomain(name) == <<"Some", name>>
Names ==
    {<<100, 98>>, <<100, 46, 98>>, <<110, 52, 106>>, <<100, 45, 98>>,
     <<>>, <<100, 32, 98>>, <<46, 100>>, <<45, 100>>, <<100, 46, 46, 98>>}

\* DNSNameRef::try_from_ascii_str accepts name: letters, digits and hyphens
\* in labels that are separated by dots, no label empty or beginning or ending
\* with a hyphen
IsDnsName(name) ==
    /\ name # <<>>
    /\ \A i \in DOMAIN name :
          \/ name[i] \in 97 .. 122 \/ name[i] \in 65 .. 90 \/ name[i] \in 48 .. 57
          \/ name[i] \in {45, 46}
    /\ \A i \in DOMAIN name :
          name[i] = 46 => (i > 1 /\ name[i - 1] \notin {45, 46}
                           /\ i < Len(name) /\ name[i + 1] \notin {45, 46})
    /\ name[1] # 45
    /\ name[Len(name)] # 45

\* the Result<Stream> of connect
Pending == [res |-> "Pending", stream |-> "None", err |-> "None", name |-> <<>>]
OkStream(variant) == [res |-> "Ok", stream |-> variant, err |-> "None", name |-> <<>>]
ErrConnect(e, name) == [res |-> "Err", stream |-> "None", err |-> e, name |-> name]

\* `match domain` up to the first await: with a domain, the name is checked
\* before anything is connected
Stream_connect_match(c) ==
    IF c.domain[1] = "Some" /\ ~IsDnsName(c.domain[2])
    THEN [c EXCEPT !.at = "done", !.result = ErrConnect("InvalidDNSName", c.domain[2])]
    ELSE [c EXCEPT !.at = "tcp"]

\* the end of TcpStream::connect returning the stream as it is, with or
\* without a domain
Stream_connect_tcp_plain(c, outcome) ==
    LET done == [c EXCEPT !.at = "done",
                          !.events = Append(@, [op |-> "tcp_connect",
                                                ok |-> outcome = "connected",
                                                name |-> <<>>])]
    IN  IF outcome # "connected" THEN [done EXCEPT !.result = ErrConnect("Io", <<>>)]
        ELSE [done EXCEPT !.result = OkStream("Tcp")]

\* TcpStream::connect(addr).await?: without a domain the stream is returned
\* as Stream::Tcp, with a domain it is handed to the TLS connector
Stream_connect_tcp(c, outcome) ==
    LET done == [c EXCEPT !.at = "done",
                          !.events = Append(@, [op |-> "tcp_connect",
                                                ok |-> outcome = "connected",
                                                name |-> <<>>])]
    IN  IF outcome # "connected" THEN [done EXCEPT !.result = ErrConnect("Io", <<>>)]
        ELSE IF c.domain[1] = "Some" THEN [done EXCEPT !.at = "tls"]
        ELSE [done EXCEPT !.result = OkStream("Tcp")]

\* TlsConnector::connect(dns_name_ref, stream).await?
Stream_connect_tls(c, outcome) ==
    LET done == [c EXCEPT !.at = "done",
                          !.events = Append(@, [op |-> "tls_handshake",
                                                ok |-> outcome = "verified",
                                                name |-> c.domain[2]])]
    IN  IF outcome # "verified" THEN [done EXCEPT !.result = ErrConnect("Io", <<>>)]
        ELSE [done EXCEPT !.result = OkStream("SecureTcp")]

\* Stream::connect(addr, domain) is called
ConnectInit ==
    /\ \E addr \in Addrs, domain \in {NoDomain} \cup {SomeDomain(n) : n \in Names} :
          conn = [at |-> "match", addr |-> addr, domain |-> domain,
                  result |-> Pending, events |-> <<>>]
    /\ CodecIdle
    /\ ThreadsIdle

MatchDomain ==
    /\ conn # <<>>
    /\ conn.at = "match"
    /\ conn' = Stream_connect_match(conn)
    /\ UNCHANGED <<input, wire, cursor, codec_vars, thread_vars>>

\* the connection attempt ends: established, refused or timed out
TcpConnect ==
    /\ conn # <<>>
    /\ conn.at = "tcp"
    /\ \E outcome \in {"connected", "refused", "timed_out"} :
          conn' = Stream_connect_tcp(conn, outcome)
    /\ UNCHANGED <<input, wire, cursor, codec_vars, thread_vars>>

\* the handshake ends: certificate verified for the name, certificate
\* rejected, or connection closed
TlsHandshake ==
    /\ conn # <<>>
    /\ conn.at = "tls"
    /\ \E outcome \in {"verified", "bad_certificate", "closed"} :
          conn' = Stream_connect_tls(conn, outcome)
    /\ UNCHANGED <<input, wire, cursor, codec_vars, thread_vars>>

ConnectNext == MatchDomain \/ TcpConnect \/ TlsHandshake

SpecConnect == ConnectInit /\ [][ConnectNext]_vars

\* ------------------------------------------------------------------------
\* Decoders called by several threads on clones of one Arc<Mutex<Bytes>>
\* ------------------------------------------------------------------------

\* the threads that hold a clone of the cursor
MaxThreads == 2

\* the result a decoder returns to its caller (the cursor is shared, so it
\* is no part of the result)
NoRet == [res |-> "None", val |-> NoValue, err |-> NoError]
RetOk(val) == [res |-> "Ok", val |-> val, err |-> NoError]
RetErr(e) == [res |-> "Err", val |-> NoValue, err |-> e]
RetPanic == [res |-> "Panic", val |-> NoValue, err |-> NoError]
RetOf(r) == [res |-> r.res, val |-> r.val, err |-> r.err]

\* the activation of a decoder fn on a thread's stack: at is the statement
\* it stands before, the other fields are its local variables
Frame(fn) ==
    [fn |-> fn, at |-> "entry", marker |-> 0, size |-> Usize(0, 0), i |-> 0,
     key |-> <<>>, acc |-> <<>>, kinds |-> <<>>]

\* what a statement does: it goes on in its frame, calls a child decoder,
\* or returns to the caller
Goto(f, cur) == [do |-> "goto", frame |-> f, callee |-> f, ret |-> NoRet, cur |-> cur]
Call(f, fn, cur) ==
    [do |-> "call", frame |-> f, callee |-> Frame(fn), ret |-> NoRet, cur |-> cur]
Return(f, r, cur) == [do |-> "return", frame |-> f, callee |-> f, ret |-> r, cur |-> cur]

\* the arm of the match of Value::try_from taken for a marker
Value_arm(marker) ==
    CASE marker \in {null_MARKER, boolean_MARKER_FALSE, boolean_MARKER_TRUE} -> "advance"
      [] AsI8(marker) >= -16 /\ AsI8(marker) <= 127 -> "advance"
      [] marker \in {integer_MARKER_INT_8, integer_MARKER_INT_16,
                     integer_MARKER_INT_32, integer_MARKER_INT_64} -> "Integer"
      [] marker = float_MARKER -> "Float"
      [] InFamily(marker, string_MARKER_TINY, string_MARKER_SMALL) -> "String"
      [] InFamily(marker, list_MARKER_TINY, list_MARKER_SMALL) -> "List"
      [] InFamily(marker, map_MARKER_TINY, map_MARKER_SMALL) -> "Map"
      [] marker >= structure_MARKER_TINY /\ marker <= BitOr(list_MARKER_TINY, 15) ->
            "deserialize_structure"
      [] marker \in {structure_MARKER_SMALL, structure_MARKER_MEDIUM} ->
            "deserialize_structure"
      [] OTHER -> "invalid"

\* the value of a marker that is a whole value: null, false, true or a
\* tiny int
Value_immediate(marker) ==
    CASE marker = null_MARKER -> Null
      [] marker = boolean_MARKER_FALSE -> Boolean(FALSE)
      [] marker = boolean_MARKER_TRUE -> Boolean(TRUE)
      [] OTHER -> Integer(SignExtend(<<marker>>))

\* a statement of Value::try_from; ret is what the child returned
Value_step(f, ret, cur) ==
    CASE f.at = "entry" ->
            LET m == Peek(cur)
            IN  IF ~m.ok THEN Return(f, RetErr(Panicked), m.cur)
                ELSE Goto([f EXCEPT !.marker = m.v[1], !.at = "match"], cur)
      [] f.at = "match" ->
            LET arm == Value_arm(f.marker)
            IN  IF arm = "advance" THEN Goto([f EXCEPT !.at = "advance"], cur)
                ELSE IF arm = "invalid"
                THEN Return(f, RetOf(MapErr(Err(InvalidMarkerByte(f.marker), cur))), cur)
                ELSE Call([f EXCEPT !.at = "child", !.kinds = <<arm>>], arm, cur)
      [] f.at = "advance" ->
            IF cur.poisoned \/ Len(cur.buf) < 1
            THEN Return(f, RetErr(Panicked), [cur EXCEPT !.poisoned = TRUE])
            ELSE Return(f, RetOk(Value_immediate(f.marker)), Advance(cur, 1))
      [] f.at = "child" ->
            IF ret.res = "Panic" THEN Return(f, RetErr(Panicked), cur)
            ELSE IF ret.res = "Err" THEN Return(f, RetOf(MapErr(Err(ret.err, cur))), cur)
            ELSE IF f.kinds[1] = "deserialize_structure" THEN Return(f, ret, cur)
            ELSE Return(f, RetOk(<<f.kinds[1], ret.val>>), cur)

\* a statement of Map::try_from
Map_step(f, ret, cur) ==
    CASE f.at = "entry" ->
            LET m == Read(cur, 1)
            IN  IF ~m.ok THEN Return(f, RetErr(Panicked), m.cur)
                ELSE Goto([f EXCEPT !.marker = m.v[1], !.at = "size"], m.cur)
      [] f.at = "size" ->
            LET tiny == f.marker >= map_MARKER_TINY
                        /\ f.marker <= BitOr(map_MARKER_TINY, 15)
                sz == IF f.marker = map_MARKER_SMALL THEN Read(cur, 1)
                      ELSE IF f.marker = map_MARKER_MEDIUM THEN Read(cur, 2)
                      ELSE Read(cur, 4)
            IN  IF tiny
                THEN Goto([f EXCEPT !.size = Usize(0, BitAnd(15, f.marker)),
                                    !.acc = EmptyMap, !.at = "loop"], cur)
                ELSE IF f.marker \notin {map_MARKER_SMALL, map_MARKER_MEDIUM,
                                         map_MARKER_LARGE}
                THEN Return(f, RetErr(InvalidMarkerByte(f.marker)), cur)
                ELSE IF ~sz.ok THEN Return(f, RetErr(Panicked), sz.cur)
                ELSE Goto([f EXCEPT !.size = SizeOfBytes(sz.v), !.acc = EmptyMap,
                                    !.at = "loop"], sz.cur)
      [] f.at = "loop" ->
            IF LessThanUsize(f.i, f.size) THEN Call([f EXCEPT !.at = "key"], "String", cur)
            ELSE Return(f, RetOk(f.acc), cur)
      [] f.at = "key" ->
            IF ret.res # "Ok" THEN Return(f, ret, cur)
            ELSE Call([f EXCEPT !.key = ret.val, !.at = "value"], "Value", cur)
      [] f.at = "value" ->
            IF ret.res # "Ok" THEN Return(f, ret, cur)
            ELSE Goto([f EXCEPT !.acc = Insert(f.acc, f.key, ret.val), !.i = f.i + 1,
                                !.at = "loop"], cur)

\* a statement of deserialize_structure
deserialize_structure_step(f, ret, cur) ==
    CASE f.at = "entry" ->
            LET signature == get_signature_from_bytes(cur)
            IN  IF signature.res # "Ok" THEN Return(f, RetOf(signature), signature.cur)
                ELSE Goto([f EXCEPT !.marker = signature.val, !.at = "match"],
                          signature.cur)
      [] f.at = "match" ->
            IF f.marker \in {node_SIGNATURE, relationship_SIGNATURE, path_SIGNATURE,
                             unbound_relationship_SIGNATURE}
            THEN LET s == Call([f EXCEPT !.at = "child"], "Structure", cur)
                 IN  [s EXCEPT !.callee.marker = f.marker,
                               !.callee.kinds = FieldKinds(f.marker)]
            ELSE Return(f, RetErr(InvalidSignatureByte(f.marker)), cur)
      [] f.at = "child" -> Return(f, ret, cur)

\* a statement of Node::try_from and of the decoders of the other
\* structures: the fields one after the other
Structure_step(f, ret, cur) ==
    CASE f.at = "entry" ->
            IF f.kinds = <<>> THEN Return(f, RetOk(FromFields(f.marker, f.acc)), cur)
            ELSE Call([f EXCEPT !.at = "field"], Head(f.kinds), cur)
      [] f.at = "field" ->
            IF ret.res # "Ok" THEN Return(f, ret, cur)
            ELSE Goto([f EXCEPT !.acc = Append(f.acc, ret.val), !.kinds = Tail(f.kinds),
                                !.at = "entry"], cur)

\* a statement of List::try_from
List_step(f, ret, cur) ==
    CASE f.at = "entry" ->
            LET size == List_read_size(cur)
            IN  IF size.res # "Ok" THEN Return(f, RetOf(size), size.cur)
                ELSE Goto([f EXCEPT !.size = size.val, !.at = "loop"], size.cur)
      [] f.at = "loop" ->
            IF LessThanUsize(f.i, f.size) THEN Call([f EXCEPT !.at = "element"], "Value", cur)
            ELSE Return(f, RetOk(f.acc), cur)
      [] f.at = "element" ->
            IF ret.res # "Ok" THEN Return(f, ret, cur)
            ELSE Goto([f EXCEPT !.acc = Append(f.acc, ret.val), !.i = f.i + 1,
                                !.at = "loop"], cur)

\* Integer::try_from, Float::try_from and String::try_from
Scalar_step(f, ret, cur) ==
    LET r == CASE f.fn = "Integer" -> Integer_try_from(cur)
               [] f.fn = "Float" -> Float_try_from(cur)
               [] f.fn = "String" -> String_try_from(cur)
    IN  Return(f, RetOf(r), r.cur)

\* the statement the frame stands before
Step(f, ret, cur) ==
    CASE f.fn = "Value" -> Value_step(f, ret, cur)
      [] f.fn = "Map" -> Map_step(f, ret, cur)
      [] f.fn = "deserialize_structure" -> deserialize_structure_step(f, ret, cur)
      [] f.fn = "Structure" -> Structure_step(f, ret, cur)
      [] f.fn = "List" -> List_step(f, ret, cur)
      [] OTHER -> Scalar_step(f, ret, cur)

\* the statement begins with input_arc.lock().unwrap()
NeedsLock(f) ==
    \/ f.at = "entry" /\ f.fn # "Structure"
    \/ f.fn = "Value" /\ f.at = "advance"
    \/ f.fn = "Map" /\ f.at = "size"
       /\ f.marker \in {map_MARKER_SMALL, map_MARKER_MEDIUM, map_MARKER_LARGE}

\* a guard bound to a variable of deserialize_structure, alive until the
\* function returns
GuardScope_function(f) ==
    IF f.fn = "deserialize_structure" THEN "function" ELSE "statement"

\* where the MutexGuard of the statement is dropped: it is a temporary of
\* the statement in every decoder
GuardScope(f) == "statement"

\* a thread: the stack of its decoders, what the last decoder returned,
\* locked: it holds the guard of the statement it stands before, held: the
\* frame whose guard outlives its statement (0: none), started: it has read
\* from the cursor
Thread(fn) ==
    [stack |-> <<Frame(fn)>>, ret |-> NoRet, locked |-> FALSE, held |-> 0,
     started |-> FALSE]

Top(th) == th.stack[Len(th.stack)]

RECURSIVE RunLocal(_, _)

\* the thread after the statement s of its top frame
After(th, s) ==
    LET n == Len(th.stack)
        read == NeedsLock(Top(th))
        keeps == read /\ s.do # "return" /\ GuardScope(Top(th)) = "function"
    IN  [stack |-> CASE s.do = "goto" -> [th.stack EXCEPT ![n] = s.frame]
                     [] s.do = "call" ->
                           Append([th.stack EXCEPT ![n] = s.frame], s.callee)
                     [] s.do = "return" -> SubSeq(th.stack, 1, n - 1),
         ret |-> s.ret,
         locked |-> FALSE,
         held |-> IF keeps THEN n
                  ELSE IF s.do = "return" /\ th.held = n THEN 0
                  ELSE th.held,
         started |-> th.started \/ read]

\* a node with no label and no property, behind the header of the small form
SharedNode == <<220, 3, 78, 1, 144, 160>>

\* the bytes behind the cursor the threads share
SharedInputs ==
    { <<192, 1>>,
      <<161, 129, 97, 1, 1>>,
      <<216, 1, 129, 97, 195>>,
      <<161, 129, 97>> \o SharedNode,
      <<220, 3, 78, 1, 144, 161, 129, 97, 161, 129, 98, 192>>,
      <<161, 129, 97, 220, 3, 78, 1, 145, 1, 161, 129, 98, 192>>,
      <<216>> }

\* the decoders an application calls on the cursor
SharedDecoders == {"Value", "Map"}

\* every thread is about to call its decoder on its clone of the cursor
SharedInit ==
    /\ \E n \in 1 .. MaxThreads, bytes \in SharedInputs :
         \E fns \in [1 .. n -> SharedDecoders] :
            /\ input = [src |-> "Shared", decoders |-> fns]
            /\ wire = bytes
            /\ cursor = Cursor(bytes)
            /\ threads = [t \in 1 .. n |-> Thread(fns[t])]
    /\ holder = 0
    /\ pc = "shared"
    /\ header = NoHeader
    /\ result = NoResult
    /\ via = "None"
    /\ rewire = <<>>
    /\ history = <<>>
    /\ ConnectIdle

\* input_arc.lock(): the thread gets the mutex when no thread holds it
Acquire(t) ==
    /\ threads[t].stack # <<>>
    /\ NeedsLock(Top(threads[t]))
    /\ ~threads[t].locked
    /\ holder = 0
    /\ holder' = t
    /\ threads' = [threads EXCEPT ![t].locked = TRUE]
    /\ UNCHANGED <<input, wire, cursor, codec_vars, connect_vars>>

\* the statements of the thread that follow without a lock of the cursor:
\* they touch nothing another thread sees
RunLocal(th, cur) ==
    IF th.stack = <<>> \/ NeedsLock(Top(th)) THEN th
    ELSE Bind(After(th, Step(Top(th), th.ret, cur)), LAMBDA nx : RunLocal(nx, cur))

\* the thread runs the statement it holds the guard for, drops the guard
\* where its scope ends, and goes on to its next lock of the cursor or to
\* the return of its decoder
Exec(t) ==
    /\ threads[t].stack # <<>>
    /\ threads[t].locked
    /\ LET s == Step(Top(threads[t]), threads[t].ret, cursor)
       IN  /\ cursor' = s.cur
           /\ \E th \in {RunLocal(After(threads[t], s), s.cur)} :
                 /\ threads' = [threads EXCEPT ![t] = th]
                 /\ holder' = IF th.held # 0 THEN t ELSE 0
    /\ UNCHANGED <<input, wire, codec_vars, connect_vars>>

SharedNext == \E t \in DOMAIN threads : Acquire(t) \/ Exec(t)

SpecShared == SharedInit /\ [][SharedNext]_vars

\* ------------------------------------------------------------------------
\* Properties
\* ------------------------------------------------------------------------

Decoded(decoder) == pc = "decoded" /\ via = decoder
FromMap == input.src = "Map"
FromBytes(families) == input.src = "Bytes" /\ input.family \in families
StructureForms == {"tiny", "small", "medium"}
KnownSignatures ==
    {node_SIGNATURE, relationship_SIGNATURE, path_SIGNATURE, unbound_relationship_SIGNATURE}

\* C1: decoding the bytes produced by encoding a Map m, through Map decode or
\* through the generic Value decode, yields m (Value::Map(m) for the Value
\* decoder), whatever the variants of its values.
C1_RoundTrip ==
    (pc = "decoded" /\ FromMap) =>
        /\ result.res = "Ok"
        /\ result.val = IF via = "Map" THEN input.map ELSE ValueMap(input.map)

\* the markers of the marker table
InMarkerTable(b) ==
    \/ b = 192 \/ b = 194 \/ b = 195
    \/ b <= 127 \/ b >= 240
    \/ b \in 200 .. 203 \/ b = 193
    \/ b \in 128 .. 143 \/ b \in 208 .. 210
    \/ b \in 144 .. 159 \/ b \in 212 .. 214
    \/ b \in 160 .. 175 \/ b \in 216 .. 218
    \/ b \in 176 .. 191 \/ b \in 220 .. 221

IsInvalidMarker(e, b) == e.kind = "InvalidMarkerByte" /\ e.byte = b

\* C2: for every first byte b followed by a well-formed remainder, the Value
\* decoder succeeds iff b is a marker of the table; a byte that is not in the
\* table gives an invalid marker error naming it, a byte of the table never.
C2_MarkerFamily ==
    (Decoded("Value") /\ FromBytes({"marker"})) =>
        /\ (result.res = "Ok") <=> InMarkerTable(input.n)
        /\ ~InMarkerTable(input.n) =>
              (result.res = "Err" /\ IsInvalidMarker(result.err, input.n))
        /\ InMarkerTable(input.n) =>
              ~(result.res = "Err" /\ IsInvalidMarker(result.err, input.n))

VariantOf(signature) ==
    CASE signature = node_SIGNATURE -> "Node"
      [] signature = relationship_SIGNATURE -> "Relationship"
      [] signature = path_SIGNATURE -> "Path"
      [] signature = unbound_relationship_SIGNATURE -> "UnboundRelationship"

\* C3: an input whose first byte is the tiny structure marker of 3 fields,
\* followed by a known signature and its fields, decodes to the variant of the
\* signature.
C3_StructureDispatch ==
    (Decoded("Value") /\ FromBytes({"tiny"}) /\ input.n = 3
       /\ input.signature \in KnownSignatures) =>
        /\ result.res = "Ok"
        /\ Variant(result.val) = VariantOf(input.signature)

\* C4: on every byte string Value decode and Map decode return a result (an
\* error for an input that ends in the middle of a value) and the process is
\* not terminated.
C4_FaultIsolation ==
    (pc \in {"decoded", "aborted"} /\ input.src = "Bytes") =>
        /\ result.res \in {"Ok", "Err"}
        /\ (input.family = "prefix" /\ \E s \in Samples : Len(input.bytes) < Len(s)
                                                         /\ input.bytes = SubSeq(s, 1, input.n))
              => result.res = "Err"

\* C5: a Map of n entries is given the marker 0xA0|n and no size when
\* n <= 15, 0xD8 and a u8 size when 16 <= n <= 255, 0xD9 and a big-endian u16
\* size when 256 <= n <= 65535, 0xDA and a big-endian u32 size when
\* 65536 <= n <= 2^32-1, and ValueTooLarge(n) exactly when n > 2^32-1;
\* get_marker and the encoder agree.
C5_MinimumWidthHeader ==
    /\ pc = "header" =>
          LET n == input.len
              m == header.marker
              e == header.bytes
          IN  /\ (n.hi = 0 /\ n.lo <= 15) =>
                    (m.ok /\ m.bytes = <<160 + n.lo>> /\ e.bytes = <<160 + n.lo>>)
              /\ (n.hi = 0 /\ n.lo >= 16 /\ n.lo <= 255) =>
                    (m.ok /\ m.bytes = <<216>> /\ e.bytes = <<216, n.lo>>)
              /\ (n.hi = 0 /\ n.lo >= 256) =>
                    (m.ok /\ m.bytes = <<217>>
                          /\ e.bytes = <<217, n.lo \div 256, n.lo % 256>>)
              /\ (n.hi >= 1 /\ n.hi <= 65535) =>
                    (m.ok /\ m.bytes = <<218>>
                          /\ e.bytes = <<218, n.hi \div 256, n.hi % 256,
                                         n.lo \div 256, n.lo % 256>>)
              /\ (n.hi > 65535) <=> ~m.ok
              /\ ~m.ok => (m.err = "ValueTooLarge" /\ m.len = n /\ e = m)
              /\ m.ok <=> e.ok
    /\ (pc = "wire" /\ FromMap) =>
          LET c == Cardinality(DOMAIN input.map)
          IN  IF c <= 15 THEN wire[1] = 160 + c ELSE wire[1] = 216 /\ wire[2] = c

\* C5 witness: the header of a map of 65536 entries was written
C5_Witness ==
    /\ pc = "header"
    /\ input.len = Usize(1, 0)
    /\ header.marker.bytes = <<218>>
    /\ header.bytes.bytes = <<218, 0, 1, 0, 0>>

\* width of the size prefix of a String, List or Map of n elements
PrefixWidth(n) == IF n <= 15 THEN 0 ELSE IF n <= 255 THEN 1 ELSE IF n <= 65535 THEN 2 ELSE 4

RECURSIVE SizeOf(_)
RECURSIVE SumSizes(_)
RECURSIVE SumEntrySizes(_, _)

\* encoded size of a Value: marker, size prefix, children
SizeOf(v) ==
    LET t == Variant(v)
        x == Payload(v)
    IN  CASE t \in {"Null", "Boolean"} -> 1
          [] t = "Integer" ->
                IF FitsBytes(x, 1) THEN (IF AsI8(x[8]) >= -16 THEN 1 ELSE 2)
                ELSE IF FitsBytes(x, 2) THEN 3
                ELSE IF FitsBytes(x, 4) THEN 5
                ELSE 9
          [] t = "Float" -> 9
          [] t = "String" -> 1 + PrefixWidth(Len(x)) + Len(x)
          [] t = "List" -> 1 + PrefixWidth(Len(x)) + SumSizes(x)
          [] t = "Map" ->
                1 + PrefixWidth(Cardinality(DOMAIN x)) + SumEntrySizes(x, DOMAIN x)
          [] t = "Node" ->
                2 + SumSizes(<<Integer(x.id), List(x.labels), ValueMap(x.properties)>>)
          [] t = "Relationship" ->
                2 + SumSizes(<<Integer(x.id), Integer(x.start_id), Integer(x.end_id),
                               String(x.type), ValueMap(x.properties)>>)
          [] t = "UnboundRelationship" ->
                2 + SumSizes(<<Integer(x.id), String(x.type), ValueMap(x.properties)>>)
          [] t = "Path" -> 2 + SumSizes(<<List(x.nodes), List(x.rels), List(x.sequence)>>)

SumSizes(l) == IF l = <<>> THEN 0 ELSE SizeOf(Head(l)) + SumSizes(Tail(l))

SumEntrySizes(m, S) ==
    IF S = {} THEN 0
    ELSE LET k == CHOOSE x \in S : TRUE
         IN  SizeOf(String(k)) + SizeOf(m[k]) + SumEntrySizes(m, S \ {k})

IsPrefix(p, bs) == Len(p) <= Len(bs) /\ SubSeq(bs, 1, Len(p)) = p

RECURSIVE IsEntries(_, _, _)
\* body is, in some order, each entry of m with a key of S exactly once: the
\* encoded key immediately followed by the encoded value, and nothing else
IsEntries(body, m, S) ==
    IF S = {} THEN body = <<>>
    ELSE \E k \in S : \E vb \in Value_try_into(m[k]) :
            LET entry == String_try_into(k) \o vb
            IN  /\ IsPrefix(entry, body)
                /\ IsEntries(SubSeq(body, Len(entry) + 1, Len(body)), m, S \ {k})

\* C6: the encoding of a Map is the marker, the size prefix (if any) and each
\* entry exactly once, the key immediately followed by its value; its length
\* is 1 + width of the size prefix + the sizes of all keys and values; the map
\* {"a": 1} is encoded as A1 81 61 01.
C6_MapWireLayout ==
    (pc = "wire" /\ FromMap) =>
        LET m == input.map
            w == PrefixWidth(Cardinality(DOMAIN m))
        IN  /\ Len(wire) = 1 + w + SumEntrySizes(m, DOMAIN m)
            /\ IsEntries(SubSeq(wire, 2 + w, Len(wire)), m, DOMAIN m)
            /\ (DOMAIN m = {<<97>>} /\ m[<<97>>] = Integer(I64(1)))
                  => wire = <<161, 129, 97, 1>>

\* C6 witness: the map of 16 entries of the tests was encoded to 2 + 16 * 3
\* bytes
C6_Witness ==
    /\ pc = "wire"
    /\ FromMap
    /\ Cardinality(DOMAIN input.map) = 16
    /\ Len(wire) = 50

RECURSIVE SingleOrder(_)
\* v holds no map of two or more entries
SingleOrder(v) ==
    LET t == Variant(v)
        x == Payload(v)
    IN  CASE t = "List" -> \A i \in DOMAIN x : SingleOrder(x[i])
          [] t = "Map" -> Cardinality(DOMAIN x) <= 1 /\ \A k \in DOMAIN x : SingleOrder(x[k])
          [] t = "Node" -> SingleOrder(ValueMap(x.properties))
          [] t = "Relationship" -> SingleOrder(ValueMap(x.properties))
          [] t = "UnboundRelationship" -> SingleOrder(ValueMap(x.properties))
          [] t = "Path" -> SingleOrder(List(x.nodes)) /\ SingleOrder(List(x.rels))
          [] OTHER -> TRUE

Arity(signature) == IF signature = relationship_SIGNATURE THEN 5 ELSE 3

\* C8: a structure whose declared field count differs from the arity of its
\* signature fails to decode.
C8_ArityCheck ==
    (Decoded("Value") /\ FromBytes(StructureForms) /\ input.signature \in KnownSignatures
       /\ input.n # Arity(input.signature)) =>
        result.res = "Err"

\* C9: a structure marker followed by a signature other than 0x4E, 0x52, 0x50
\* and 0x72 gives an invalid signature error naming the signature, and no
\* Value.
C9_UnknownSignature ==
    (Decoded("Value") /\ FromBytes(StructureForms) /\ input.signature \notin KnownSignatures) =>
        /\ result.res = "Err"
        /\ result.err.kind = "InvalidSignatureByte"
        /\ result.err.byte = input.signature

\* C10: an input whose maps are nested deeper than the limit is rejected with
\* an error.
C10_BoundedRecursion ==
    (pc \in {"decoded", "aborted"} /\ FromBytes({"nested"}) /\ input.n > DepthLimit) =>
        result.res = "Err"

\* C11: a map of n entries under a header of any width that holds n (the
\* tiny marker, or 0xD8, 0xD9, 0xDA and a u8, u16, u32 size, n <= 15 included)
\* decodes, through Map decode and through Value decode, to the Map that each
\* of its minimum-width encodings decodes to, and the input is used up.
C11_AnyLegalWidth ==
    (pc = "decoded" /\ FromBytes(MapForms)) =>
        /\ result.res = "Ok"
        /\ cursor.buf = <<>>
        /\ \A canonical \in MapBytes(TinyMap(input.n)) :
              LET decoded == Map_try_from(Cursor(canonical), 1)
              IN  /\ decoded.res = "Ok"
                  /\ result.val = IF via = "Map" THEN decoded.val ELSE ValueMap(decoded.val)

\* C11 witness: 2 entries under the u32 size of 0xDA were decoded to a map of
\* 2 entries
C11_Witness ==
    /\ Decoded("Map")
    /\ FromBytes({"map_large"})
    /\ input.n = 2
    /\ result.res = "Ok"
    /\ DOMAIN result.val = {<<97>>, <<98>>}

\* a String of the data model: a byte sequence that is well-formed UTF-8
IsString(k) == k \in Seq(Byte) /\ IsUtf8(k)

\* C12: a map whose key position starts with a marker that is not a string
\* marker fails to decode with an error and returns no Map, through Map decode
\* and through Value decode; every key of a decoded Map is a String.
C12_KeysAreStrings ==
    /\ (pc = "decoded" /\ FromBytes({"key"})
          /\ ~InFamily(input.n, string_MARKER_TINY, string_MARKER_SMALL)) =>
            (result.res = "Err" /\ result.val = NoValue)
    /\ (Decoded("Map") /\ result.res = "Ok") =>
            \A k \in DOMAIN result.val : IsString(k)
    /\ (Decoded("Value") /\ result.res = "Ok" /\ Variant(result.val) = "Map") =>
            \A k \in DOMAIN Payload(result.val) : IsString(k)

\* C12 witness: the key position held the integer 1 and Map decode returned an
\* invalid marker error
C12_Witness ==
    /\ Decoded("Map")
    /\ FromBytes({"key"})
    /\ input.n = 1
    /\ result.res = "Err"
    /\ IsInvalidMarker(result.err, 1)

\* C13: for every first byte b in 0x00..0x7F or 0xF0..0xFF the Value decoder
\* returns Integer(b as a signed 8-bit number) and consumes exactly that byte
\* (0x6E gives 110, 0xF0 gives -16, 0xFF gives -1); for no byte in 0x80..0xEF
\* does it return an Integer having consumed one byte.
C13_TinyInt ==
    (Decoded("Value") /\ FromBytes({"marker", "tail"})) =>
        LET b == input.n
            one_byte == cursor.buf = Tail(input.bytes)
        IN  /\ (b <= 127 \/ b >= 240) =>
                  /\ result.res = "Ok"
                  /\ result.val = Integer(I64(IF b <= 127 THEN b ELSE b - 256))
                  /\ one_byte
            /\ (b >= 128 /\ b <= 239) =>
                  ~(result.res = "Ok" /\ Variant(result.val) = "Integer" /\ one_byte)

\* C13 witness: 0xF0 followed by more bytes was decoded to -16 and the bytes
\* after it are left on the cursor
C13_Witness ==
    /\ Decoded("Value")
    /\ FromBytes({"tail"})
    /\ input.n = 240
    /\ result.val = Integer(<<255, 255, 255, 255, 255, 255, 255, 240>>)
    /\ cursor.buf = TrailingBytes

\* C16: the conversion of a Value to a zoned date-time succeeds only for the
\* DateTimeZoned variant; for every other variant it fails with
\* ConversionError carrying the Value it was given.
C16_ConversionError ==
    pc = "converted" =>
        /\ result.res = "Ok" => Variant(input.value) = "DateTimeZoned"
        /\ Variant(input.value) # "DateTimeZoned" =>
              /\ result.res = "Err"
              /\ result.err.kind = "ConversionError"
              /\ result.val = input.value

\* C16 witness: the conversion of a Node failed with ConversionError carrying
\* the Node
C16_Witness ==
    /\ pc = "converted"
    /\ input.value = SampleNode
    /\ result.res = "Err"
    /\ result.err.kind = "ConversionError"
    /\ result.val = SampleNode

IsSuffix(tail, bs) == Len(tail) <= Len(bs) /\ SubSeq(bs, Len(bs) - Len(tail) + 1, Len(bs)) = tail

\* the decodes 1 .. i on the cursor all succeeded
AllOk(i) == \A j \in 1 .. i : history[j].res = "Ok"

\* C17: a successful decode leaves on the cursor exactly the bytes that follow
\* the encoding it decoded (Null, Boolean and tiny int advance by one byte; a
\* Map by its marker, size and entries); successive successful decodes on a
\* cursor that holds values back-to-back return these values in order, the
\* cursor advanced by the sum of their encoded sizes.
C17_ExactConsumption ==
    /\ (pc = "decoded" /\ FromBytes({"tail"}) /\ result.res = "Ok") =>
          /\ cursor.buf = TrailingBytes
          /\ (via = "Value" /\ (input.n \in {null_MARKER, boolean_MARKER_FALSE,
                                              boolean_MARKER_TRUE}
                                 \/ input.n <= 127 \/ input.n >= 240)) =>
                cursor.buf = Tail(input.bytes)
    /\ (pc \in {"decoded", "again"} /\ input.src = "Values") =>
          \A i \in DOMAIN history :
             AllOk(i) =>
                /\ history[i].val = IF history[i].via = "Map"
                                    THEN Payload(input.values[i]) ELSE input.values[i]
                /\ i = Len(history) =>
                      /\ IsSuffix(cursor.buf, wire)
                      /\ Len(wire) - Len(cursor.buf) = SumSizes(SubSeq(input.values, 1, i))

\* C17 witness: three values written back-to-back, a map among them, were
\* returned by three decodes
C17_Witness ==
    /\ pc = "again"
    /\ input.src = "Values"
    /\ Len(history) = 3
    /\ AllOk(3)
    /\ \E i \in 1 .. 3 : history[i].via = "Map"
    /\ cursor.buf = <<>>

\* the map of the wire entries with the keys ks: each key with the value of
\* its last occurrence
LastWins(ks) ==
    [k \in {<<ks[i]>> : i \in DOMAIN ks} |->
        Integer(I64(CHOOSE i \in DOMAIN ks :
                       /\ <<ks[i]>> = k
                       /\ \A j \in DOMAIN ks : <<ks[j]>> = k => j <= i))]

\* C19: a wire map that declares `size` entries, some keys repeating, decodes
\* successfully, all `size` pairs are read, and the Map holds one entry per
\* distinct key with the value of its last occurrence: at most `size`
\* entries.
C19_DuplicateKeys ==
    (pc = "decoded" /\ input.src = "Pairs") =>
        LET decoded == IF via = "Map" THEN result.val ELSE Payload(result.val)
        IN  /\ result.res = "Ok"
            /\ via = "Value" => Variant(result.val) = "Map"
            /\ cursor.buf = <<>>
            /\ decoded = LastWins(input.keys)
            /\ Cardinality(DOMAIN decoded) <= Len(input.keys)

\* C19 witness: the wire map "a": 1, "b": 2, "a": 3 was decoded to a Map of
\* two entries, "a" being 3
C19_Witness ==
    /\ Decoded("Map")
    /\ input.src = "Pairs"
    /\ input.keys = <<97, 98, 97>>
    /\ result.res = "Ok"
    /\ Cardinality(DOMAIN result.val) = 2
    /\ result.val[<<97>>] = Integer(I64(3))

\* the i-th decode on the cursor failed on a panic the decoder caught
UnderRead(i) == history[i].res = "Err" /\ history[i].err.kind = "Panicked"

\* C20: once a decode on a cursor has failed because a read ran past the end
\* of the input (the marker peek on an empty cursor included), every later
\* Value or Map decode on the cursor returns an error, whatever bytes it
\* still holds.
C20_UnusableAfterUnderRead ==
    pc \in {"decoded", "again"} =>
        \A i, j \in DOMAIN history :
            (i < j /\ UnderRead(i)) => history[j].res = "Err"

\* C20 witness: a map header ended inside its u16 size, the byte left over
\* being the tiny int 1, and the next Value decode on the cursor failed
C20_Witness ==
    /\ pc = "again"
    /\ FromBytes({"underread"})
    /\ UnderRead(1)
    /\ cursor.buf = <<1>>
    /\ history[2].via = "Value"
    /\ history[2].res = "Err"

\* the operations connect has performed
Performed(op) == {i \in DOMAIN conn.events : conn.events[i].op = op}

\* C14: without a server name connect returns the plain TCP stream if the TCP
\* connection is established and performs no TLS handshake; with a server
\* name the TCP connection is established first, then one TLS handshake
\* against that name is performed, and a Stream is returned only if both
\* succeed, the TLS variant; a server name that is not a DNS name gives the
\* invalid server name error, carrying the name, and no Stream.
C14_TransportSelection ==
    conn # <<>> =>
        LET tcp == Performed("tcp_connect")
            tls == Performed("tls_handshake")
            name == conn.domain[2]
            returned == conn.at = "done"
        IN  /\ conn.domain = NoDomain =>
                  /\ tls = {}
                  /\ returned =>
                        (conn.result.res = "Ok" <=> (tcp = {1} /\ conn.events[1].ok))
                  /\ conn.result.res = "Ok" => conn.result.stream = "Tcp"
            /\ conn.domain # NoDomain =>
                  /\ \A i \in tls :
                        /\ i = 2 /\ tcp = {1} /\ conn.events[1].ok
                        /\ conn.events[i].name = name
                  /\ returned =>
                        (conn.result.res = "Ok" <=> (tls = {2} /\ conn.events[2].ok))
                  /\ conn.result.res = "Ok" => conn.result.stream = "SecureTcp"
            /\ (conn.domain # NoDomain /\ ~IsDnsName(name) /\ returned) =>
                  /\ conn.result = ErrConnect("InvalidDNSName", name)
                  /\ conn.events = <<>>
            /\ conn.result.res = "Ok" => returned

\* C14 witness: connect with the server name "d.b" returned the TLS variant
\* after a TCP connection and a handshake
C14_Witness ==
    /\ conn # <<>>
    /\ conn.at = "done"
    /\ conn.domain = SomeDomain(<<100, 46, 98>>)
    /\ conn.result = OkStream("SecureTcp")
    /\ Len(conn.events) = 2

\* the decode invocation of the thread is in progress: it has read from the
\* cursor and its decoder has not returned
InProgress(th) == th.started /\ th.stack # <<>>

\* the step is a read or an advance of the cursor by thread t
ReadsCursor(t) == threads[t].locked /\ ~threads'[t].locked

\* C15: while the decode invocation of one thread on the shared cursor is
\* in progress, no other thread's decode reads from or advances the cursor:
\* the reads of two concurrent decodes never interleave.
C15_ExclusiveOwnership ==
    [][\A t \in DOMAIN threads, u \in DOMAIN threads :
          t # u /\ ReadsCursor(t) => ~InProgress(threads[u])]_vars

\* the thread waits for a mutex it holds itself
SelfBlocked(t) ==
    /\ threads[t].stack # <<>>
    /\ NeedsLock(Top(threads[t]))
    /\ ~threads[t].locked
    /\ holder = t

\* C18: a thread holds the cursor lock only for the one statement that
\* reads the cursor (the peek, the marker, the size, the signature): it
\* holds none when it invokes a child decoder or returns, and never waits
\* for a lock it holds itself.
C18_NoSelfDeadlock ==
    \A t \in DOMAIN threads :
       /\ holder = t => threads[t].locked /\ NeedsLock(Top(threads[t]))
       /\ threads[t].held = 0
       /\ ~SelfBlocked(t)

\* a single thread has decoded a map holding a node that holds a list and
\* a map, down to the last byte
C18_Witness ==
    /\ input.decoders = <<"Value">>
    /\ threads[1].stack = <<>>
    /\ threads[1].ret.res = "Ok"
    /\ Variant(threads[1].ret.val) = "Map"
    /\ \E k \in DOMAIN Payload(threads[1].ret.val) :
          /\ Variant(Payload(threads[1].ret.val)[k]) = "Node"
          /\ Payload(Payload(threads[1].ret.val)[k]).properties # EmptyMap
    /\ cursor.buf = <<>>
    /\ holder = 0

====
